---- MODULE Spec2Model ----
(***************************************************************************)
(* Model of package websocket (src/websocket/websocket.go): the handshake  *)
(* helpers IsWebSocketUpgrade, ChangeRequestScheme, websocketHeaders,      *)
(* NewResponseHeader, generateAcceptKey, ClientConnect, and the relay      *)
(* Stream with its two copy goroutines and the proxyDone channel.          *)
(*                                                                         *)
(* Go strings that the code inspects byte by byte (header names, header    *)
(* values, the nonce, the accept token) are sequences of byte values, so   *)
(* that canonicalisation, token matching, SHA-1 and base64 are computed.   *)
(* URL schemes are only compared for equality and are TLA+ strings.        *)
(***************************************************************************)
EXTENDS Integers, Sequences, FiniteSets, TLC

VARIABLES
    req,        \* the inbound *http.Request: [URL |-> [Scheme], Host, Header |-> ref]
    heap,       \* Go maps are references: heap[ref] is the http.Header stored at ref
    ret,        \* what the last call of a helper returned: [op, val]
    respHeader, \* what the last call of NewResponseHeader returned, or None
    cc,         \* what the last call of ClientConnect returned, or None
    dials,      \* how many times dialler.Dial has been called
    lastDial,   \* the last call of dialler.Dial: what was passed, what came back
    mainPC,     \* Stream: position of the calling goroutine
    gPC,        \* Stream: position of each copy goroutine
    gErr,       \* Stream: the err of each copy goroutine's io.Copy
    proxyDone,  \* Stream: contents of the buffered channel
    stream,     \* Stream: the two io.ReadWriters, as the environment drives them
    copied,     \* Stream: bytes each direction has written to its destination
    sent,       \* Stream: completion signals each copy goroutine has sent
    debugLog    \* Stream: the messages passed to log.Debug().Msgf

hsVars == <<req, heap, ret, respHeader, cc, dials, lastDial>>
stVars == <<mainPC, gPC, gErr, proxyDone, stream, copied, sent, debugLog>>
vars == <<req, heap, ret, respHeader, cc, dials, lastDial,
          mainPC, gPC, gErr, proxyDone, stream, copied, sent, debugLog>>

\* a nil pointer is <<>>, a pointer to x is <<x>>; a nil error or connection is ""
Nil == <<>>

-----------------------------------------------------------------------------
(* Bounds of the model *)

\* at most this many entries in the inbound request's header mapping
MaxHeaders == 2
\* at most this many calls of ClientConnect (each dials) on the request
MaxDials == 1
\* at most this many bytes offered by a peer on one stream
MaxBytes == 2

-----------------------------------------------------------------------------
(* String literals of the source, as byte sequences *)

sUpgrade == <<85, 112, 103, 114, 97, 100, 101>>  \* "Upgrade"
sConnection == <<67, 111, 110, 110, 101, 99, 116, 105, 111, 110>>  \* "Connection"
sSecWebsocketKey == <<83, 101, 99, 45, 87, 101, 98, 115, 111, 99, 107, 101, 116, 45, 75, 101, 121>>  \* "Sec-Websocket-Key"
sSecWebSocketKey == <<83, 101, 99, 45, 87, 101, 98, 83, 111, 99, 107, 101, 116, 45, 75, 101, 121>>  \* "Sec-WebSocket-Key"
sSecWebsocketVersion == <<83, 101, 99, 45, 87, 101, 98, 115, 111, 99, 107, 101, 116, 45, 86, 101, 114, 115, 105, 111, 110>>  \* "Sec-Websocket-Version"
sSecWebsocketExtensions == <<83, 101, 99, 45, 87, 101, 98, 115, 111, 99, 107, 101, 116, 45, 69, 120, 116, 101, 110, 115, 105, 111, 110, 115>>  \* "Sec-Websocket-Extensions"
sSecWebSocketAccept == <<83, 101, 99, 45, 87, 101, 98, 83, 111, 99, 107, 101, 116, 45, 65, 99, 99, 101, 112, 116>>  \* "Sec-WebSocket-Accept"
sSecWebsocketAccept == <<83, 101, 99, 45, 87, 101, 98, 115, 111, 99, 107, 101, 116, 45, 65, 99, 99, 101, 112, 116>>  \* "Sec-Websocket-Accept"
sHost == <<72, 111, 115, 116>>  \* "Host"
sWebsocket == <<119, 101, 98, 115, 111, 99, 107, 101, 116>>  \* "websocket"
sUpgradeLower == <<117, 112, 103, 114, 97, 100, 101>>  \* "upgrade"
MagicGUID == <<50, 53, 56, 69, 65, 70, 65, 53, 45, 69, 57, 49, 52, 45, 52, 55, 68, 65, 45, 57, 53, 67, 65, 45, 67, 53, 65, 66, 48, 68, 67, 56, 53, 66, 49, 49>>  \* "258EAFA5-E914-47DA-95CA-C5AB0DC85B11"

\* a slip: the last name left out of the list
stripWebsocketHeadersShort == <<sUpgrade, sConnection, sSecWebsocketKey,
                                sSecWebsocketVersion>>

\* var stripWebsocketHeaders
stripWebsocketHeaders == <<sUpgrade, sConnection, sSecWebsocketKey,
                           sSecWebsocketVersion, sSecWebsocketExtensions>>

(* Strings the inputs are drawn from *)

sHostLower == <<104, 111, 115, 116>>  \* "host"
sOrigin == <<79, 114, 105, 103, 105, 110>>  \* "Origin"
sWebSocketMixed == <<87, 101, 98, 83, 111, 99, 107, 101, 116>>  \* "WebSocket"
sKeepAliveUpgrade == <<107, 101, 101, 112, 45, 97, 108, 105, 118, 101, 44, 32, 85, 112, 103, 114, 97, 100, 101>>  \* "keep-alive, Upgrade"
sKeepAlive == <<107, 101, 101, 112, 45, 97, 108, 105, 118, 101>>  \* "keep-alive"
sH2cWebsocket == <<104, 50, 99, 44, 32, 119, 101, 98, 115, 111, 99, 107, 101, 116>>  \* "h2c, websocket"
sH2c == <<104, 50, 99>>  \* "h2c"
s13 == <<49, 51>>  \* "13"
sBogus == <<98, 111, 103, 117, 115>>  \* "bogus"
sHostA == <<97, 46, 105, 111>>  \* "a.io"
sHostB == <<98, 46, 105, 111>>  \* "b.io"
sOldHost == <<111, 108, 100, 46, 105, 111>>  \* "old.io"
sNonceRFC == <<100, 71, 104, 108, 73, 72, 78, 104, 98, 88, 66, 115, 90, 83, 66, 117, 98, 50, 53, 106, 90, 81, 61, 61>>  \* "dGhlIHNhbXBsZSBub25jZQ=="
sNonceE2E == <<120, 51, 74, 74, 72, 77, 98, 68, 76, 49, 69, 122, 76, 107, 104, 57, 71, 66, 104, 88, 68, 119, 61, 61>>  \* "x3JJHMbDL1EzLkh9GBhXDw=="
sAcceptRFC == <<115, 51, 112, 80, 76, 77, 66, 105, 84, 120, 97, 81, 57, 107, 89, 71, 122, 122, 104, 90, 82, 98, 75, 43, 120, 79, 111, 61>>  \* "s3pPLMBiTxaQ9kYGzzhZRbK+xOo="
sAcceptE2E == <<72, 83, 109, 114, 99, 48, 115, 77, 108, 89, 85, 107, 65, 71, 109, 109, 53, 79, 80, 112, 71, 50, 72, 97, 71, 87, 107, 61>>  \* "HSmrc0sMlYUkAGmm5OPpG2HaGWk="
sAcceptEmpty == <<75, 102, 104, 57, 81, 73, 115, 77, 86, 90, 99, 108, 54, 120, 69, 80, 89, 120, 80, 72, 122, 87, 56, 83, 90, 56, 119, 61>>  \* "Kfh9QIsMVZcl6xEPYxPHzW8SZ8w="

-----------------------------------------------------------------------------
(* ASCII helpers *)

IsUpperByte(c) == 65 <= c /\ c <= 90
IsLowerByte(c) == 97 <= c /\ c <= 122
IsDigitByte(c) == 48 <= c /\ c <= 57
ToLowerByte(c) == IF IsUpperByte(c) THEN c + 32 ELSE c
ToUpperByte(c) == IF IsLowerByte(c) THEN c - 32 ELSE c
\* RFC 7230 tchar: what net/textproto and gorilla/websocket accept in a token
\*   ! # $ % & ' * + - . ^ _ ` | ~ DIGIT ALPHA
IsTokenByte(c) == \/ IsUpperByte(c) \/ IsLowerByte(c) \/ IsDigitByte(c)
                  \/ c \in {33, 35, 36, 37, 38, 39, 42, 43, 45, 46, 94, 95, 96, 124, 126}
ToLower(s) == [i \in 1..Len(s) |-> ToLowerByte(s[i])]
\* gorilla/websocket equalASCIIFold
equalASCIIFold(s, t) == ToLower(s) = ToLower(t)

-----------------------------------------------------------------------------
(* net/textproto and net/http: http.Header is map[string][]string *)

\* textproto.CanonicalMIMEHeaderKey: a key holding a byte that is no token byte
\* is returned unchanged; otherwise the first letter and every letter after a
\* '-' is upper-cased and every other letter lower-cased.
canonicalMIMEHeaderKey(s) ==
    IF \E i \in 1..Len(s) : ~IsTokenByte(s[i]) THEN s
    ELSE [i \in 1..Len(s) |->
            IF i = 1 \/ s[i - 1] = 45 THEN ToUpperByte(s[i]) ELSE ToLowerByte(s[i])]

\* canonicalMIMEHeaderKey on the header names of the model, computed once: the
\* same function, tabulated.
HeaderNames == {sUpgrade, sUpgradeLower, sConnection, sSecWebsocketKey, sSecWebSocketKey,
                sSecWebsocketVersion, sSecWebsocketExtensions, sSecWebSocketAccept,
                sSecWebsocketAccept, sHost, sHostLower, sOrigin}
canonicalTable == [s \in HeaderNames |-> canonicalMIMEHeaderKey(s)]
CanonicalMIMEHeaderKey(s) == canonicalTable[s]

EmptyHeader == [k \in {} |-> <<>>]
\* delete(h, key) on the map itself
MapDelete(h, key) == [k \in DOMAIN h \ {key} |-> h[k]]
\* h[key] = vals on the map itself
MapStore(h, key, vals) == [k \in DOMAIN h \cup {key} |-> IF k = key THEN vals ELSE h[k]]
\* http.Header.Del
HeaderDel(h, key) == MapDelete(h, CanonicalMIMEHeaderKey(key))
\* http.Header.Set
HeaderSet(h, key, value) == MapStore(h, CanonicalMIMEHeaderKey(key), <<value>>)
\* http.Header.Add
HeaderAdd(h, key, value) ==
    LET k == CanonicalMIMEHeaderKey(key)
    IN MapStore(h, k, (IF k \in DOMAIN h THEN h[k] ELSE <<>>) \o <<value>>)
\* http.Header.Get: the first value under the canonical key, "" when there is none
HeaderGet(h, key) ==
    LET k == CanonicalMIMEHeaderKey(key)
    IN IF k \in DOMAIN h /\ Len(h[k]) > 0 THEN h[k][1] ELSE <<>>

-----------------------------------------------------------------------------
(* crypto/sha1 and encoding/base64, on 32-bit words kept as two 16-bit halves *)
(* <<hi, lo>> so that no intermediate value leaves the 32-bit integers.      *)

\* bitwise operations on 16-bit values, four bits at a time
RECURSIVE Xor4(_, _)
Xor4(a, b) == IF a = 0 THEN b ELSE IF b = 0 THEN a
              ELSE 2 * Xor4(a \div 2, b \div 2) + ((a + b) % 2)
RECURSIVE And4(_, _)
And4(a, b) == IF a = 0 \/ b = 0 THEN 0
              ELSE 2 * And4(a \div 2, b \div 2) + ((a % 2) * (b % 2))
Nibble(a, i) == (a \div (16 ^ i)) % 16
Xor16(a, b) == Xor4(Nibble(a, 0), Nibble(b, 0)) + 16 * Xor4(Nibble(a, 1), Nibble(b, 1))
               + 256 * Xor4(Nibble(a, 2), Nibble(b, 2)) + 4096 * Xor4(Nibble(a, 3), Nibble(b, 3))
And16(a, b) == And4(Nibble(a, 0), Nibble(b, 0)) + 16 * And4(Nibble(a, 1), Nibble(b, 1))
               + 256 * And4(Nibble(a, 2), Nibble(b, 2)) + 4096 * And4(Nibble(a, 3), Nibble(b, 3))
Or16(a, b) == a + b - And16(a, b)
Not16(a) == 65535 - a
WXor(u, v) == <<Xor16(u[1], v[1]), Xor16(u[2], v[2])>>
WAnd(u, v) == <<And16(u[1], v[1]), And16(u[2], v[2])>>
WOr(u, v) == <<Or16(u[1], v[1]), Or16(u[2], v[2])>>
WNot(u) == <<Not16(u[1]), Not16(u[2])>>
\* addition modulo 2^32
WAdd(u, v) == LET lo == u[2] + v[2]
                  hi == u[1] + v[1] + (lo \div 65536)
              IN <<hi % 65536, lo % 65536>>
\* the sum modulo 2^32 of five words
WSum(u) == LET lo == u[1][2] + u[2][2] + u[3][2] + u[4][2] + u[5][2]
               hi == u[1][1] + u[2][1] + u[3][1] + u[4][1] + u[5][1] + (lo \div 65536)
           IN <<hi % 65536, lo % 65536>>
RotlSmall(u, n) ==
    IF n = 0 THEN u
    ELSE <<((u[1] * (2 ^ n)) % 65536) + (u[2] \div (2 ^ (16 - n))),
           ((u[2] * (2 ^ n)) % 65536) + (u[1] \div (2 ^ (16 - n)))>>
\* rotate left by n bits, 0 <= n < 32
Rotl(u, n) == IF n < 16 THEN RotlSmall(u, n) ELSE RotlSmall(<<u[2], u[1]>>, n - 16)

Zeros(n) == [i \in 1..n |-> 0]
\* the message, 0x80, zeros up to 56 modulo 64, the bit length as 64 bits big-endian
ShaPad(m) ==
    LET bits == Len(m) * 8
    IN m \o <<128>> \o Zeros((119 - Len(m)) % 64)
         \o <<0, 0, 0, 0, 0, 0, (bits \div 256) % 256, bits % 256>>
ShaWordAt(p, i) == <<p[i] * 256 + p[i + 1], p[i + 2] * 256 + p[i + 3]>>
\* the message schedule: w[t] = (w[t-3] ^ w[t-8] ^ w[t-14] ^ w[t-16]) <<< 1 for the
\* rounds from 16 on, computed in the round that uses it
ShaScheduleWord(w) ==
    LET t == Len(w) + 1
    IN Rotl(WXor(WXor(w[t - 3], w[t - 8]), WXor(w[t - 14], w[t - 16])), 1)
ShaSchedule(w, t) == IF t < 16 THEN w ELSE Append(w, ShaScheduleWord(w))
ShaF(t, b, c, d) ==
    IF t < 20 THEN WOr(WAnd(b, c), WAnd(WNot(b), d))
    ELSE IF t < 40 THEN WXor(WXor(b, c), d)
    ELSE IF t < 60 THEN WOr(WOr(WAnd(b, c), WAnd(b, d)), WAnd(c, d))
    ELSE WXor(WXor(b, c), d)
\* 0x5A827999, 0x6ED9EBA1, 0x8F1BBCDC, 0xCA62C1D6
ShaK(t) == IF t < 20 THEN <<23170, 31129>>
           ELSE IF t < 40 THEN <<28377, 60321>>
           ELSE IF t < 60 THEN <<36635, 48348>>
           ELSE <<51810, 49622>>
\* s = <<a, b, c, d, e, t, w>>: the working variables, the round number and the
\* message schedule so far; one round, given the schedule w and f of this round
\* (a tuple's elements are evaluated in order: w and f are computed before the sum)
ShaRoundWith(s, w, f) ==
    <<w, f, <<WSum(<<Rotl(s[1], 5), f, s[5], ShaK(s[6]), w[s[6] + 1]>>),
              s[1], Rotl(s[2], 30), s[3], s[4], s[6] + 1, w>>>>[3]
ShaRound(s) == ShaRoundWith(s, ShaSchedule(s[7], s[6]), ShaF(s[6], s[2], s[3], s[4]))
\* the rounds from s[6] up to n, the first half of them and then the rest
RECURSIVE ShaRoundsUpTo(_, _)
ShaRoundsUpTo(s, n) ==
    IF s[6] = n - 1 THEN ShaRound(s)
    ELSE ShaRoundsUpTo(ShaRoundsUpTo(s, s[6] + ((n - s[6]) \div 2)), n)
\* the 80 rounds of a block
ShaRounds(s) == ShaRoundsUpTo(s, 80)
\* h[i] += s[i]
ShaAddState(h, s) ==
    <<WAdd(h[1], s[1]), WAdd(h[2], s[2]), WAdd(h[3], s[3]), WAdd(h[4], s[4]),
      WAdd(h[5], s[5])>>
ShaBlock(h, p, off) ==
    ShaAddState(h, ShaRounds(<<h[1], h[2], h[3], h[4], h[5], 0,
                               [i \in 1..16 |-> ShaWordAt(p, off + 4 * (i - 1) + 1)]>>))
\* the blocks of 64 bytes from p[off + 1] on; h1 is the digest after the first of
\* them, computed before the blocks that follow
RECURSIVE ShaBlocks(_, _, _)
ShaBlocksAfter(h1, p, off) == <<h1, ShaBlocks(h1, p, off + 64)>>[2]
ShaBlocks(h, p, off) ==
    IF off >= Len(p) THEN h ELSE ShaBlocksAfter(ShaBlock(h, p, off), p, off)
\* 0x67452301, 0xEFCDAB89, 0x98BADCFE, 0x10325476, 0xC3D2E1F0
ShaInit == <<<<26437, 8961>>, <<61389, 43913>>, <<39098, 56574>>,
             <<4146, 21622>>, <<50130, 57840>>>>
\* the words as bytes, big-endian
WordsToBytes(h) ==
    [i \in 1..(4 * Len(h)) |->
        LET half == h[((i - 1) \div 4) + 1][(((i - 1) % 4) \div 2) + 1]
        IN IF i % 2 = 1 THEN half \div 256 ELSE half % 256]
\* sha1.New(), io.WriteString(hasher, str), hasher.Sum(nil): the 20-byte digest
Sha1Sum(m) == WordsToBytes(ShaBlocks(ShaInit, ShaPad(m), 0))

\* the standard base64 alphabet A-Z a-z 0-9 + /
Base64Char(v) == IF v < 26 THEN 65 + v
                 ELSE IF v < 52 THEN 97 + (v - 26)
                 ELSE IF v < 62 THEN 48 + (v - 52)
                 ELSE IF v = 62 THEN 43 ELSE 47
\* base64.StdEncoding.EncodeToString, padded with '='
\* the four characters of the group of up to three bytes that starts at b[i]
Base64Group(b, i) ==
    IF Len(b) = i
    THEN <<Base64Char(b[i] \div 4), Base64Char((b[i] % 4) * 16), 61, 61>>
    ELSE IF Len(b) = i + 1
    THEN <<Base64Char(b[i] \div 4), Base64Char((b[i] % 4) * 16 + b[i + 1] \div 16),
           Base64Char((b[i + 1] % 16) * 4), 61>>
    ELSE <<Base64Char(b[i] \div 4), Base64Char((b[i] % 4) * 16 + b[i + 1] \div 16),
           Base64Char((b[i + 1] % 16) * 4 + b[i + 2] \div 64), Base64Char(b[i + 2] % 64)>>
Base64Encode(b) ==
    [j \in 1..(4 * ((Len(b) + 2) \div 3)) |->
        Base64Group(b, 3 * ((j - 1) \div 4) + 1)[((j - 1) % 4) + 1]]

\* func sha1Base64(str string) string
sha1Base64(str) == Base64Encode(Sha1Sum(str))

\* sha1Base64 on the strings generateAcceptKey can pass in the model, computed
\* once: the same function, tabulated.
KeyStrings == {<<>>, sNonceRFC, sNonceE2E}
sha1Base64Table == [str \in {k \o MagicGUID : k \in KeyStrings} |-> sha1Base64(str)]

-----------------------------------------------------------------------------
(* gorilla/websocket: IsWebSocketUpgrade and its token-list matching *)

RECURSIVE skipSpace(_)
skipSpace(s) == IF Len(s) > 0 /\ s[1] \in {32, 9} THEN skipSpace(Tail(s)) ELSE s
RECURSIVE TokenLen(_)
TokenLen(s) == IF Len(s) > 0 /\ IsTokenByte(s[1]) THEN 1 + TokenLen(Tail(s)) ELSE 0
\* one header value: comma-separated tokens, one of them value (ASCII case folded)
RECURSIVE tokenListHas(_, _)
tokenListHas(s, value) ==
    LET s1 == skipSpace(s)
        n == TokenLen(s1)
        t == SubSeq(s1, 1, n)
        r == skipSpace(SubSeq(s1, n + 1, Len(s1)))
    IN IF n = 0 THEN FALSE
       ELSE IF Len(r) > 0 /\ r[1] # 44 THEN FALSE
       ELSE IF equalASCIIFold(t, value) THEN TRUE
       ELSE IF Len(r) = 0 THEN FALSE
       ELSE tokenListHas(Tail(r), value)
\* over every value stored under header[name] (the map is indexed as is)
tokenListContainsValue(header, name, value) ==
    /\ name \in DOMAIN header
    /\ \E i \in 1..Len(header[name]) : tokenListHas(header[name][i], value)

\* a slip: the Connection header compared as a whole
IsWebSocketUpgradeExact(header) ==
    /\ equalASCIIFold(HeaderGet(header, sConnection), sUpgradeLower)
    /\ tokenListContainsValue(header, sUpgrade, sWebsocket)

\* func IsWebSocketUpgrade(req *http.Request) bool
IsWebSocketUpgrade(header) ==
    /\ tokenListContainsValue(header, sConnection, sUpgradeLower)
    /\ tokenListContainsValue(header, sUpgrade, sWebsocket)

-----------------------------------------------------------------------------
(* The functions of the package *)

\* a slip: the case "" left out
ChangeRequestSchemeNoEmpty(reqURL) ==
    CASE reqURL.Scheme = "https" -> "wss"
      [] reqURL.Scheme = "http" -> "ws"
      [] OTHER -> reqURL.Scheme

\* func ChangeRequestScheme(reqURL *url.URL) string
ChangeRequestScheme(reqURL) ==
    CASE reqURL.Scheme = "https" -> "wss"
      [] reqURL.Scheme = "http" -> "ws"
      [] reqURL.Scheme = "" -> "ws"
      [] OTHER -> reqURL.Scheme

\* a slip: req.Header["Sec-WebSocket-Key"], the map indexed with the name as written
generateAcceptKeyRawIndex(header) ==
    sha1Base64Table[(IF sSecWebSocketKey \in DOMAIN header /\ Len(header[sSecWebSocketKey]) > 0
                     THEN header[sSecWebSocketKey][1] ELSE <<>>) \o MagicGUID]

\* func generateAcceptKey(req *http.Request) string, on req.Header
generateAcceptKey(header) ==
    sha1Base64Table[HeaderGet(header, sSecWebSocketKey) \o MagicGUID]

\* a slip: the third Add under "Connection"
NewResponseHeaderWrongName(header) ==
    LET h1 == HeaderAdd(EmptyHeader, sConnection, sUpgrade)
        h2 == HeaderAdd(h1, sSecWebsocketAccept, generateAcceptKey(header))
    IN HeaderAdd(h2, sConnection, sWebsocket)

\* func NewResponseHeader(req *http.Request) http.Header, on req.Header
NewResponseHeader(header) ==
    LET h1 == HeaderAdd(EmptyHeader, sConnection, sUpgrade)
        h2 == HeaderAdd(h1, sSecWebsocketAccept, generateAcceptKey(header))
    IN HeaderAdd(h2, sUpgrade, sWebsocket)

\* the lowest reference not in use: make(http.Header)
NewRef(hp) == CHOOSE r \in 1..(Cardinality(DOMAIN hp) + 1) : r \notin DOMAIN hp
\* what the garbage collector keeps: the maps still referenced
Collect(hp, roots) == [r \in DOMAIN hp \cap roots |-> hp[r]]

\* for key, val := range req.Header { wsHeaders[key] = val }
CopyHeaders(dst, src) ==
    [k \in DOMAIN dst \cup DOMAIN src |-> IF k \in DOMAIN src THEN src[k] ELSE dst[k]]
\* for _, header := range stripWebsocketHeaders { wsHeaders.Del(header) }
RECURSIVE StripHeaders(_, _)
StripHeaders(h, i) ==
    IF i > Len(stripWebsocketHeaders) THEN h
    ELSE StripHeaders(HeaderDel(h, stripWebsocketHeaders[i]), i + 1)

\* the body of websocketHeaders with wsHeaders bound to the map at ws
websocketHeadersAt(hp, r, ws) ==
    LET h1 == [hp EXCEPT ![ws] = CopyHeaders(@, hp[r.Header])]
        h2 == [h1 EXCEPT ![ws] = StripHeaders(@, 1)]
    IN [heap |-> [h2 EXCEPT ![ws] = HeaderSet(@, sHost, r.Host)], ref |-> ws]

\* a slip: wsHeaders := req.Header, the request's own map
websocketHeadersInPlace(hp, r) == websocketHeadersAt(hp, r, r.Header)

\* func websocketHeaders(req *http.Request) http.Header: the heap it leaves and
\* the reference it returns
websocketHeaders(hp, r) ==
    websocketHeadersAt(MapStore(hp, NewRef(hp), EmptyHeader), r, NewRef(hp))

-----------------------------------------------------------------------------
(* The inputs: inbound requests, and what the dialler can answer *)

\* header entries an inbound request may carry, some under keys that are not
\* in canonical format ("upgrade", "Sec-WebSocket-Key", "host")
HeaderEntries == {
    <<sUpgrade, <<sWebsocket>>>>, <<sUpgrade, <<sH2cWebsocket>>>>,
    <<sUpgrade, <<sH2c>>>>, <<sUpgradeLower, <<sWebSocketMixed>>>>,
    <<sConnection, <<sKeepAliveUpgrade>>>>, <<sConnection, <<sKeepAlive>>>>,
    <<sSecWebsocketKey, <<sNonceE2E, sNonceRFC>>>>, <<sSecWebsocketKey, <<sNonceRFC>>>>,
    <<sSecWebSocketKey, <<sNonceRFC>>>>,
    <<sSecWebsocketVersion, <<s13>>>>, <<sSecWebsocketExtensions, <<sBogus>>>>,
    <<sHost, <<sOldHost>>>>, <<sHostLower, <<sOldHost>>>>, <<sOrigin, <<sHostA>>>> }
HeaderOf(E) == [k \in {e[1] : e \in E} |-> (CHOOSE e \in E : e[1] = k)[2]]
Headers == { HeaderOf(E) : E \in { E \in SUBSET HeaderEntries :
                 /\ Cardinality(E) <= MaxHeaders
                 /\ \A e, f \in E : e[1] = f[1] => e = f } }
\* the URL scheme and the Host of the request
Targets == { <<"https", sHostA>>, <<"http", sHostB>>, <<"", sHostA>>,
             <<"wss", sHostB>>, <<"ftp", sHostA>> }

\* what dialler.Dial can return: (conn, response, err)
BackendHeaders == {
    [k \in {sUpgrade, sConnection, sSecWebsocketAccept} |->
        IF k = sUpgrade THEN <<sWebsocket>>
        ELSE IF k = sConnection THEN <<sUpgrade>> ELSE <<sBogus>>],
    [k \in {sSecWebsocketAccept} |-> <<sAcceptRFC, s13>>] }
DialOutcomes ==
    { [conn |-> "backendConn", response |-> <<[StatusCode |-> 101, Header |-> h]>>, err |-> ""]
        : h \in BackendHeaders }
    \cup { [conn |-> "", response |-> Nil, err |-> "dial tcp: connection refused"],
           [conn |-> "", err |-> "websocket: bad handshake",
            response |-> <<[StatusCode |-> 403,
                            Header |-> [k \in {sSecWebsocketAccept} |-> <<sBogus>>]]>>] }

-----------------------------------------------------------------------------
(* The handshake: the package's functions called on one inbound request *)

RetNone == [op |-> "none", val |-> Nil]

HandshakeInit ==
    /\ \E h \in Headers, t \in Targets :
         /\ req = [URL |-> [Scheme |-> t[1]], Host |-> t[2], Header |-> 1]
         /\ heap = [r \in {1} |-> h]
    /\ ret = RetNone
    /\ respHeader = Nil
    /\ cc = Nil
    /\ dials = 0
    /\ lastDial = Nil

StreamIdle ==
    /\ mainPC = "idle"
    /\ gPC = [d \in {1, 2} |-> "unborn"]
    /\ gErr = [d \in {1, 2} |-> ""]
    /\ proxyDone = <<>>
    /\ stream = [s \in {"conn", "backendConn"} |->
                    [inq |-> 0, offered |-> 0, rd |-> "open", closed |-> FALSE]]
    /\ copied = [d \in {1, 2} |-> 0]
    /\ sent = [d \in {1, 2} |-> 0]
    /\ debugLog = <<>>

Init == HandshakeInit /\ StreamIdle

\* IsWebSocketUpgrade(req)
CallIsWebSocketUpgrade ==
    /\ ret' = [op |-> "IsWebSocketUpgrade", val |-> IsWebSocketUpgrade(heap[req.Header])]
    /\ heap' = Collect(heap, {req.Header})
    /\ UNCHANGED <<req, respHeader, cc, dials, lastDial, stVars>>

\* ChangeRequestScheme(req.URL)
CallChangeRequestScheme ==
    /\ ret' = [op |-> "ChangeRequestScheme", val |-> ChangeRequestScheme(req.URL)]
    /\ heap' = Collect(heap, {req.Header})
    /\ UNCHANGED <<req, respHeader, cc, dials, lastDial, stVars>>

\* websocketHeaders(req)
CallWebsocketHeaders ==
    LET r == websocketHeaders(heap, req)
    IN /\ ret' = [op |-> "websocketHeaders", val |-> r.ref]
       /\ heap' = Collect(r.heap, {req.Header, r.ref})
       /\ UNCHANGED <<req, respHeader, cc, dials, lastDial, stVars>>

\* NewResponseHeader(req)
CallNewResponseHeader ==
    /\ respHeader' = <<NewResponseHeader(heap[req.Header])>>
    /\ UNCHANGED <<req, heap, ret, cc, dials, lastDial, stVars>>

\* a slip: the Sec-WebSocket-Accept header set before err is looked at
clientConnectReturnSetFirst(out, header) ==
    LET response == IF out.response = Nil THEN Nil
                    ELSE <<[out.response[1] EXCEPT
                             !.Header = HeaderSet(@, sSecWebSocketAccept,
                                                  generateAcceptKey(header))]>>
    IN IF out.err # "" THEN [conn |-> "", response |-> response, err |-> out.err]
       ELSE [conn |-> out.conn, response |-> response, err |-> ""]

\* ClientConnect after the dial: if err != nil { return nil, response, err };
\* response.Header.Set("Sec-WebSocket-Accept", generateAcceptKey(req));
\* return conn, response, nil.  header is req.Header as it is by then.
clientConnectReturn(out, header) ==
    IF out.err # ""
    THEN [conn |-> "", response |-> out.response, err |-> out.err]
    ELSE [conn |-> out.conn,
          response |-> <<[out.response[1] EXCEPT
                           !.Header = HeaderSet(@, sSecWebSocketAccept,
                                                generateAcceptKey(header))]>>,
          err |-> ""]

\* func ClientConnect(req, dialler): one call; ws is what websocketHeaders
\* leaves and returns, out is what dialler.Dial answers
ClientConnect ==
    /\ dials < MaxDials
    /\ \E url \in {[Scheme |-> ChangeRequestScheme(req.URL)]} :
       \E r1 \in {[req EXCEPT !.URL = url]} :
       \E ws \in {websocketHeaders(heap, r1)} :
       \E out \in DialOutcomes :
          /\ req' = r1
          /\ dials' = dials + 1
          /\ lastDial' = <<[url |-> url, header |-> ws.heap[ws.ref], out |-> out]>>
          /\ cc' = <<clientConnectReturn(out, ws.heap[r1.Header])>>
          /\ heap' = Collect(ws.heap, {r1.Header} \cup
                         (IF ret.op = "websocketHeaders" THEN {ret.val} ELSE {}))
    /\ UNCHANGED <<ret, respHeader, stVars>>

Next ==
    \/ CallIsWebSocketUpgrade
    \/ CallChangeRequestScheme
    \/ CallWebsocketHeaders
    \/ CallNewResponseHeader
    \/ ClientConnect

Spec == Init /\ [][Next]_vars

-----------------------------------------------------------------------------
(* The relay: func Stream(conn, backendConn io.ReadWriter, log) *)

\* a slip: make(chan struct{}, 1)
ProxyDoneCapOne == 2 - 1

\* proxyDone := make(chan struct{}, 2)
ProxyDoneCap == 2

\* copy goroutine 1 is io.Copy(conn, backendConn), goroutine 2 is io.Copy(backendConn, conn)
Src(d) == IF d = 1 THEN "backendConn" ELSE "conn"
Dst(d) == IF d = 1 THEN "conn" ELSE "backendConn"
Other(d) == 3 - d
\* the message of log.Debug().Msgf in goroutine d
LogPrefix(d) == IF d = 1 THEN "conn to backendConn copy" ELSE "backendConn to conn copy"

StreamInit ==
    /\ req = [URL |-> [Scheme |-> "https"], Host |-> sHostA, Header |-> 1]
    /\ heap = [r \in {1} |-> HeaderOf({<<sSecWebsocketKey, <<sNonceRFC>>>>})]
    /\ ret = RetNone
    /\ respHeader = Nil
    /\ cc = Nil
    /\ dials = 0
    /\ lastDial = Nil
    /\ StreamIdle

\* the caller calls Stream: the channel is made
CallStream ==
    /\ mainPC = "idle"
    /\ mainPC' = "go1"
    /\ proxyDone' = <<>>
    /\ UNCHANGED <<gPC, gErr, stream, copied, sent, debugLog, hsVars>>

\* the two go statements
GoCopy(d) ==
    /\ mainPC = (IF d = 1 THEN "go1" ELSE "go2")
    /\ mainPC' = (IF d = 1 THEN "go2" ELSE "recv")
    /\ gPC' = [gPC EXCEPT ![d] = "copy"]
    /\ UNCHANGED <<gErr, proxyDone, stream, copied, sent, debugLog, hsVars>>

\* src.Read in io.Copy: "block", "data", "EOF" or an error
ReadResult(s) ==
    IF stream[s].closed THEN "use of closed connection"
    ELSE IF stream[s].rd = "reset" THEN "connection reset by peer"
    ELSE IF stream[s].inq > 0 THEN "data"
    ELSE IF stream[s].rd = "eof" THEN "EOF"
    ELSE "block"
\* dst.Write in io.Copy: "" or an error
WriteResult(s) ==
    IF stream[s].closed THEN "use of closed connection"
    ELSE IF stream[s].rd = "reset" THEN "broken pipe"
    ELSE ""

\* io.Copy, one round of its loop that goes on: n bytes read and written
CopyData(d) ==
    /\ gPC[d] = "copy"
    /\ ReadResult(Src(d)) = "data"
    /\ WriteResult(Dst(d)) = ""
    /\ \E n \in 1..stream[Src(d)].inq :
         /\ stream' = [stream EXCEPT ![Src(d)].inq = @ - n]
         /\ copied' = [copied EXCEPT ![d] = @ + n]
    /\ UNCHANGED <<mainPC, gPC, gErr, proxyDone, sent, debugLog, hsVars>>

\* io.Copy returns: nil at end of stream, the read error, or the write error
CopyReturn(d) ==
    /\ gPC[d] = "copy"
    /\ \/ /\ ReadResult(Src(d)) = "EOF"
          /\ gErr' = [gErr EXCEPT ![d] = ""]
          /\ UNCHANGED stream
       \/ /\ ReadResult(Src(d)) \notin {"EOF", "data", "block"}
          /\ gErr' = [gErr EXCEPT ![d] = ReadResult(Src(d))]
          /\ UNCHANGED stream
       \/ /\ ReadResult(Src(d)) = "data"
          /\ WriteResult(Dst(d)) # ""
          /\ gErr' = [gErr EXCEPT ![d] = WriteResult(Dst(d))]
          /\ \E n \in 1..stream[Src(d)].inq :
                stream' = [stream EXCEPT ![Src(d)].inq = @ - n]
    /\ gPC' = [gPC EXCEPT ![d] = "iferr"]
    /\ UNCHANGED <<mainPC, proxyDone, copied, sent, debugLog, hsVars>>

\* a slip: if err != nil { log...; return }
LogIfErrReturn(d) ==
    /\ gPC[d] = "iferr"
    /\ debugLog' = IF gErr[d] # "" THEN Append(debugLog, <<LogPrefix(d), gErr[d]>>)
                   ELSE debugLog
    /\ gPC' = [gPC EXCEPT ![d] = IF gErr[d] # "" THEN "done" ELSE "send"]
    /\ UNCHANGED <<mainPC, gErr, proxyDone, stream, copied, sent, hsVars>>

\* if err != nil { log.Debug().Msgf(...) }
LogIfErr(d) ==
    /\ gPC[d] = "iferr"
    /\ debugLog' = IF gErr[d] # "" THEN Append(debugLog, <<LogPrefix(d), gErr[d]>>)
                   ELSE debugLog
    /\ gPC' = [gPC EXCEPT ![d] = "send"]
    /\ UNCHANGED <<mainPC, gErr, proxyDone, stream, copied, sent, hsVars>>

\* proxyDone <- struct{}{}: blocks while the buffer is full
SendDone(d) ==
    /\ gPC[d] = "send"
    /\ Len(proxyDone) < ProxyDoneCap
    /\ proxyDone' = Append(proxyDone, "struct{}{}")
    /\ sent' = [sent EXCEPT ![d] = @ + 1]
    /\ gPC' = [gPC EXCEPT ![d] = "done"]
    /\ UNCHANGED <<mainPC, gErr, stream, copied, debugLog, hsVars>>

\* a slip: Stream waits for both signals
RecvBoth ==
    /\ mainPC = "recv"
    /\ Len(proxyDone) > 1
    /\ proxyDone' = Tail(Tail(proxyDone))
    /\ mainPC' = "returned"
    /\ UNCHANGED <<gPC, gErr, stream, copied, sent, debugLog, hsVars>>

\* <-proxyDone, and Stream returns
RecvDone ==
    /\ mainPC = "recv"
    /\ Len(proxyDone) > 0
    /\ proxyDone' = Tail(proxyDone)
    /\ mainPC' = "returned"
    /\ UNCHANGED <<gPC, gErr, stream, copied, sent, debugLog, hsVars>>

\* the caller, after Stream has returned, closes both streams
CallerClose ==
    /\ mainPC = "returned"
    /\ mainPC' = "closed"
    /\ stream' = [s \in DOMAIN stream |-> [stream[s] EXCEPT !.closed = TRUE]]
    /\ UNCHANGED <<gPC, gErr, proxyDone, copied, sent, debugLog, hsVars>>

\* the peer of stream s makes a byte available to read
PeerSend(s) ==
    /\ stream[s].rd = "open"
    /\ ~stream[s].closed
    /\ stream[s].offered < MaxBytes
    /\ stream' = [stream EXCEPT ![s].inq = @ + 1, ![s].offered = @ + 1]
    /\ UNCHANGED <<mainPC, gPC, gErr, proxyDone, copied, sent, debugLog, hsVars>>

\* the peer of stream s closes it cleanly: reads end with EOF
PeerClose(s) ==
    /\ stream[s].rd = "open"
    /\ stream' = [stream EXCEPT ![s].rd = "eof"]
    /\ UNCHANGED <<mainPC, gPC, gErr, proxyDone, copied, sent, debugLog, hsVars>>

\* stream s breaks: reads and writes fail
PeerReset(s) ==
    /\ stream[s].rd = "open"
    /\ stream' = [stream EXCEPT ![s].rd = "reset"]
    /\ UNCHANGED <<mainPC, gPC, gErr, proxyDone, copied, sent, debugLog, hsVars>>

Goroutine(d) == CopyData(d) \/ CopyReturn(d) \/ LogIfErr(d) \/ SendDone(d)
StreamMain == CallStream \/ GoCopy(1) \/ GoCopy(2) \/ RecvDone

StreamNext ==
    \/ CallStream
    \/ \E d \in {1, 2} : GoCopy(d)
    \/ \E d \in {1, 2} : CopyData(d)
    \/ \E d \in {1, 2} : CopyReturn(d)
    \/ \E d \in {1, 2} : LogIfErr(d)
    \/ \E d \in {1, 2} : SendDone(d)
    \/ RecvDone
    \/ CallerClose
    \/ \E s \in {"conn", "backendConn"} : PeerSend(s)
    \/ \E s \in {"conn", "backendConn"} : PeerClose(s)
    \/ \E s \in {"conn", "backendConn"} : PeerReset(s)

StreamSpec == StreamInit /\ [][StreamNext]_vars

\* the Go scheduler runs every goroutine that can take a step; the peers and
\* the caller's Close are under no obligation
FairStreamSpec ==
    /\ StreamSpec
    /\ WF_vars(StreamMain)
    /\ \A d \in {1, 2} : WF_vars(Goroutine(d))

-----------------------------------------------------------------------------
(* What the claims speak of *)

\* the inbound request's header mapping
ReqHeader == heap[req.Header]
\* a key in canonical format
IsCanonicalKey(k) == canonicalMIMEHeaderKey(k) = k
\* the control headers the sanitizer removes
ExclusionSet == {sUpgrade, sConnection, sSecWebsocketKey, sSecWebsocketVersion,
                 sSecWebsocketExtensions}
\* the handshake nonce: the first value of the Sec-Websocket-Key header, "" without one
NonceOf(h) == IF sSecWebsocketKey \in DOMAIN h /\ Len(h[sSecWebsocketKey]) > 0
              THEN h[sSecWebsocketKey][1] ELSE <<>>
\* the accept tokens RFC 6455 and the end-to-end scenario publish, and that of
\* the empty nonce
ExpectedAccept(nonce) == CASE nonce = sNonceRFC -> sAcceptRFC
                           [] nonce = sNonceE2E -> sAcceptE2E
                           [] nonce = <<>> -> sAcceptEmpty

\* a header value read as a comma-separated list: its elements, blanks trimmed
RECURSIVE SplitComma(_)
SplitComma(s) ==
    IF \A i \in 1..Len(s) : s[i] # 44 THEN {s}
    ELSE LET c == CHOOSE i \in 1..Len(s) : s[i] = 44 /\ \A j \in 1..(i - 1) : s[j] # 44
         IN {SubSeq(s, 1, c - 1)} \cup SplitComma(SubSeq(s, c + 1, Len(s)))
RECURSIVE Trim(_)
Trim(s) == IF Len(s) > 0 /\ s[1] \in {32, 9} THEN Trim(Tail(s))
           ELSE IF Len(s) > 0 /\ s[Len(s)] \in {32, 9} THEN Trim(SubSeq(s, 1, Len(s) - 1))
           ELSE s
ListElements(v) == { Trim(e) : e \in SplitComma(v) }
IsToken(t) == Len(t) > 0 /\ \A i \in 1..Len(t) : IsTokenByte(t[i])
ValuesOf(h, name) == IF name \in DOMAIN h THEN { h[name][i] : i \in 1..Len(h[name]) } ELSE {}
\* every value of the header is a comma-separated list of tokens
WellFormedLists(h, name) == \A v \in ValuesOf(h, name) : \A e \in ListElements(v) : IsToken(e)
\* some value of the header lists the token, letter case apart
ListsToken(h, name, token) ==
    \E v \in ValuesOf(h, name) : \E e \in ListElements(v) : equalASCIIFold(e, token)

-----------------------------------------------------------------------------
(* C7 *)

\* C7: every call of ChangeRequestScheme returns wss for the scheme https, ws
\* for http and for the empty scheme, and any other scheme as it is, and leaves
\* the URL it is given as it was.
C7_SchemeMapping ==
    [][ (ret' # ret /\ ret'.op = "ChangeRequestScheme") =>
          /\ req.URL.Scheme = "https" => ret'.val = "wss"
          /\ req.URL.Scheme \in {"http", ""} => ret'.val = "ws"
          /\ req.URL.Scheme \notin {"https", "http", ""} => ret'.val = req.URL.Scheme
          /\ req' = req ]_vars

\* the empty scheme was given and ws came back; the URL still has no scheme
C7_Witness ==
    /\ ret.op = "ChangeRequestScheme"
    /\ ret.val = "ws"
    /\ req.URL.Scheme = ""

-----------------------------------------------------------------------------
(* C8 *)

\* what IsWebSocketUpgrade returned is what the request (still) calls for
UpgradeAnswered == ret.op = "IsWebSocketUpgrade"

\* C8 as stated: IsWebSocketUpgrade is true exactly when the Connection header
\* lists the token Upgrade and the Upgrade header equals websocket, letter case
\* apart.
C8_AsStated ==
    UpgradeAnswered =>
        (ret.val <=> /\ ListsToken(ReqHeader, sConnection, sUpgrade)
                     /\ equalASCIIFold(HeaderGet(ReqHeader, sUpgrade), sWebsocket))

\* C8, amended: for a request whose Connection and Upgrade values are
\* comma-separated lists of tokens, IsWebSocketUpgrade is true exactly when the
\* Connection header lists the token Upgrade and the Upgrade header lists the
\* token websocket, letter case apart; so it is false without the two headers.
C8_TokenLists ==
    (/\ UpgradeAnswered
     /\ WellFormedLists(ReqHeader, sConnection)
     /\ WellFormedLists(ReqHeader, sUpgrade)) =>
        (ret.val <=> /\ ListsToken(ReqHeader, sConnection, sUpgrade)
                     /\ ListsToken(ReqHeader, sUpgrade, sWebsocket))

\* Connection: keep-alive, Upgrade with Upgrade: websocket was answered true
C8_Witness ==
    /\ UpgradeAnswered
    /\ ret.val = TRUE
    /\ DOMAIN ReqHeader = {sConnection, sUpgrade}
    /\ ReqHeader[sConnection] = <<sKeepAliveUpgrade>>
    /\ ReqHeader[sUpgrade] = <<sWebsocket>>

-----------------------------------------------------------------------------
(* C2 *)

\* the mapping websocketHeaders returned last
Sanitized == heap[ret.val]
NoExcludedKey(h) == \A k \in DOMAIN h : \A x \in ExclusionSet : ~equalASCIIFold(k, x)
HostIs(h, host) == sHost \in DOMAIN h /\ h[sHost] = <<host>>

\* C2 as stated: whatever the casing of the inbound keys, the mapping
\* websocketHeaders returns has no key that matches an excluded name, letter
\* case apart, and its Host entry is the single value host.
C2_AsStated ==
    ret.op = "websocketHeaders" =>
        NoExcludedKey(Sanitized) /\ HostIs(Sanitized, req.Host)

\* C2, amended: for an inbound mapping whose keys are in canonical format, the
\* mapping websocketHeaders returns has no key that matches an excluded name,
\* letter case apart; for every inbound mapping, whether or not it had a Host
\* entry, its Host entry is the single value host.
C2_CanonicalKeys ==
    ret.op = "websocketHeaders" =>
        /\ (\A k \in DOMAIN ReqHeader : IsCanonicalKey(k)) => NoExcludedKey(Sanitized)
        /\ HostIs(Sanitized, req.Host)

\* an excluded header and an old Host went in, under canonical keys
C2_Witness ==
    /\ ret.op = "websocketHeaders"
    /\ DOMAIN ReqHeader = {sSecWebsocketExtensions, sHost}
    /\ ReqHeader[sHost] # <<req.Host>>
    /\ DOMAIN Sanitized = {sHost}

-----------------------------------------------------------------------------
(* C3, C4 *)

\* a step that is a call of ClientConnect: only ClientConnect dials
Connects == dials' # dials
\* h with the entry under key replaced by the single value v
WithEntry(h, key, v) == [k \in DOMAIN h \cup {key} |-> IF k = key THEN <<v>> ELSE h[k]]

\* C3: when the dial succeeds, ClientConnect returns the connection the dial
\* made and the dial's response, its Sec-Websocket-Accept entry replaced by the
\* accept token of the nonce the inbound request had when ClientConnect was
\* called, whatever the backend sent there, and nothing else in it changed.
C3_AcceptFromInboundNonce ==
    [][ (Connects /\ lastDial'[1].out.err = "") =>
          /\ cc'[1].err = ""
          /\ cc'[1].conn = lastDial'[1].out.conn
          /\ cc'[1].conn # ""
          /\ cc'[1].response =
                <<[lastDial'[1].out.response[1] EXCEPT
                     !.Header = WithEntry(@, sSecWebsocketAccept,
                                          ExpectedAccept(NonceOf(ReqHeader)))]>> ]_vars

\* the dial succeeded for a request that carries the end-to-end nonce; the
\* backend had sent another value, and the published token took its place
C3_Witness ==
    /\ cc # Nil
    /\ cc[1].err = ""
    /\ NonceOf(ReqHeader) = sNonceE2E
    /\ lastDial[1].out.response[1].Header[sSecWebsocketAccept] = <<sBogus>>
    /\ cc[1].response[1].Header[sSecWebsocketAccept] = <<sAcceptE2E>>

\* C4: when the dial fails, ClientConnect returns no connection, the response
\* of that dial as it came (nil, or partial, nothing added to it) and the
\* dial's error; the call has dialled once.
C4_DialFailure ==
    [][ (Connects /\ lastDial'[1].out.err # "") =>
          /\ cc'[1].conn = ""
          /\ cc'[1].response = lastDial'[1].out.response
          /\ cc'[1].err = lastDial'[1].out.err
          /\ dials' = dials + 1 ]_vars

\* the dial failed with a partial response, which came back with the error
C4_Witness ==
    /\ cc # Nil
    /\ cc[1].err = "websocket: bad handshake"
    /\ cc[1].conn = ""
    /\ cc[1].response # Nil
    /\ cc[1].response[1].StatusCode = 403
    /\ dials = 1

-----------------------------------------------------------------------------
(* C6 *)

\* the three mandated headers for the nonce
MandatedHeaders(nonce) ==
    [k \in {sConnection, sUpgrade, sSecWebsocketAccept} |->
        IF k = sConnection THEN <<sUpgrade>>
        ELSE IF k = sUpgrade THEN <<sWebsocket>>
        ELSE <<ExpectedAccept(nonce)>>]

\* C6: what NewResponseHeader returns has exactly the three entries Connection:
\* Upgrade, Upgrade: websocket and Sec-Websocket-Accept: the accept token of
\* the request's nonce (of the empty nonce without the key header), one value
\* each; and a further call on the request returns the same again.
C6_ThreeHeaders ==
    /\ [](respHeader # Nil => respHeader[1] = MandatedHeaders(NonceOf(ReqHeader)))
    /\ [][respHeader # Nil => respHeader' = respHeader]_vars

\* the request has no key header: the token is that of the empty nonce
C6_Witness ==
    /\ respHeader # Nil
    /\ sSecWebsocketKey \notin DOMAIN ReqHeader
    /\ DOMAIN respHeader[1] = {sConnection, sUpgrade, sSecWebsocketAccept}
    /\ respHeader[1][sSecWebsocketAccept] = <<sAcceptEmpty>>

-----------------------------------------------------------------------------
(* C10 *)

\* C10: no call changes the inbound request's header mapping or its host; the
\* one field of the request that changes is the URL scheme, in ClientConnect,
\* whether the dial succeeds or fails; and the accept token of
\* NewResponseHeader, called before or after ClientConnect, is the one
\* ClientConnect put in the backend's response.
C10_RequestFrame ==
    /\ [][ /\ req'.Header = req.Header
           /\ req'.Host = req.Host
           /\ heap'[req.Header] = heap[req.Header]
           /\ req' # req => Connects
           /\ Connects => req'.URL.Scheme \in {"ws", "wss", req.URL.Scheme} ]_vars
    /\ []((respHeader # Nil /\ cc # Nil /\ cc[1].err = "") =>
            cc[1].response[1].Header[sSecWebsocketAccept]
                = respHeader[1][sSecWebsocketAccept])

\* websocketHeaders and a successful ClientConnect have been called on a
\* request with a nonce, a Host header and an http URL, and NewResponseHeader too
C10_Witness ==
    /\ ret.op = "websocketHeaders"
    /\ cc # Nil
    /\ cc[1].err = ""
    /\ respHeader # Nil
    /\ req.URL.Scheme = "ws"
    /\ DOMAIN ReqHeader = {sSecWebsocketKey, sHost}
    /\ ReqHeader[sHost] # <<req.Host>>

-----------------------------------------------------------------------------
(* C1, C5, C9: the relay *)

\* Stream has returned to its caller
Returned == mainPC \in {"returned", "closed"}
\* the io.Copy of direction d has returned, at end of stream or with an error
Completed(d) == gPC[d] \in {"iferr", "send", "done"}
\* goroutine d has ended
Ended(d) == gPC[d] = "done"

\* C1: Stream never returns while neither direction has completed and sent its
\* signal, and once a direction has completed Stream returns, whatever the
\* other direction does.
C1_ReturnsOnFirstCompletion ==
    /\ [](Returned => \E d \in {1, 2} : Ended(d) /\ sent[d] = 1)
    /\ ((\E d \in {1, 2} : Completed(d)) ~> Returned)

\* backendConn was closed by its peer at once and conn never: Stream has
\* returned while the copy from conn is still going on
C1_Witness ==
    /\ mainPC = "returned"
    /\ Ended(1) /\ gErr[1] = ""
    /\ stream["backendConn"].rd = "eof" /\ stream["backendConn"].offered = 0
    /\ gPC[2] = "copy"
    /\ stream["conn"].rd = "open"

\* C5: a direction whose copy ends with an error has that error in the log and
\* then sends its one signal just as a direction that ends cleanly does; no
\* step of a copy goroutine touches the other goroutine, closes a stream or
\* moves the caller.
C5_ErrorOnlyLogged ==
    /\ [](\A d \in {1, 2} :
            /\ Ended(d) => sent[d] = 1
            /\ ~Ended(d) => sent[d] = 0
            /\ gPC[d] \in {"send", "done"} =>
                 (gErr[d] # "" <=> \E i \in 1..Len(debugLog) :
                                      debugLog[i] = <<LogPrefix(d), gErr[d]>>))
    /\ [][ \A d \in {1, 2} :
             (gPC[d] # "unborn" /\ gPC'[d] # gPC[d]) =>
                 /\ gPC'[Other(d)] = gPC[Other(d)]
                 /\ gErr'[Other(d)] = gErr[Other(d)]
                 /\ mainPC' = mainPC
                 /\ \A x \in DOMAIN stream :
                       /\ stream'[x].closed = stream[x].closed
                       /\ stream'[x].rd = stream[x].rd ]_vars

\* direction 1 ended with an error, logged it and sent its signal, while
\* direction 2 goes on copying and has written a byte since
C5_Witness ==
    /\ Ended(1) /\ gErr[1] # "" /\ sent[1] = 1
    /\ Len(debugLog) = 1
    /\ gPC[2] = "copy"
    /\ copied[2] > 0
    /\ Len(proxyDone) = 1

\* C9: a copy goroutine that is about to send its signal finds room in the
\* channel, also after Stream has returned; and once the caller has closed
\* both streams, both copy goroutines end.
C9_NoGoroutineLeftBlocked ==
    /\ [](\A d \in {1, 2} : gPC[d] = "send" => Len(proxyDone) < ProxyDoneCap)
    /\ (mainPC = "closed" ~> (\A d \in {1, 2} : Ended(d)))

\* the caller has closed both streams; the straggler was made to end by that
\* and its signal sits in the channel, which nobody receives from any more
C9_Witness ==
    /\ mainPC = "closed"
    /\ \A d \in {1, 2} : Ended(d)
    /\ \E d \in {1, 2} : gErr[d] = "use of closed connection"
    /\ Len(proxyDone) = 1

====
